---- MODULE Spec2Model ----
(***************************************************************************)
(* Crazy-Sevens ("Jack 77") rule engine of src/src/App.tsx as a state      *)
(* machine.  The React component's useState cells are the variables, each  *)
(* event handler (button onClick, card onClick, the opponent's setTimeout  *)
(* callback) is one action, and the useEffect that owns the opponent's     *)
(* timer is re-evaluated at the end of every action, as React does after   *)
(* the render that follows a handler.                                      *)
(*                                                                         *)
(* Intents are modelled at the level of the handlers: an intent is         *)
(* possible when the element carrying the handler is rendered (the hand    *)
(* and the draw pile only when gameState # 'start', the start button only  *)
(* when gameState = 'start', the suit buttons only when showSuitPicker,    *)
(* the Play Again button only when gameState = 'gameOver'), and its effect *)
(* is what the handler's code does.  Which element lies visually on top of *)
(* which is layout, and is not part of the model.                          *)
(***************************************************************************)
EXTENDS Integers, Sequences, FiniteSets, TLC

----------------------------------------------------------------------------
(* Bounds of the model (the program deals 8 cards from 4 x 13 = 52).       *)

\* number of ranks in the deck, counted from the wild rank upwards
NumRanks == 3
\* cards dealt to each hand by initGame
HandSize == 2
\* number of distinct outcomes of the random shuffle that are explored
NumShuffles == 12
\* number of state-changing intents (plays, draws, suit choices, AI moves)
\* explored in one match
MaxMoves == 10

----------------------------------------------------------------------------
(* Types and constants, App.tsx lines 25-37                                *)

SUITS == <<"hearts", "diamonds", "clubs", "spades">>
RANKS == <<"A", "2", "3", "4", "5", "6", "7", "8", "9", "10", "J", "Q", "K">>
WILD_RANK == "7"

\* null / undefined
NoSuit == "none"
NoOne == "none"
NoCard == [suit |-> "none", rank |-> "none"]

\* the ranks the bounded deck is built from: NumRanks ranks starting at the wild
DeckRanks ==
  LET w == CHOOSE i \in 1..Len(RANKS) : RANKS[i] = WILD_RANK
  IN  SubSeq(RANKS, w, w + NumRanks - 1)

\* createDeck: suits outermost, ranks innermost
createDeck ==
  [k \in 1..(Len(SUITS) * Len(DeckRanks)) |->
     [suit |-> SUITS[((k - 1) \div Len(DeckRanks)) + 1],
      rank |-> DeckRanks[((k - 1) % Len(DeckRanks)) + 1]]]

\* the [a[i], a[j]] = [a[j], a[i]] exchange, on 1-based positions
Swap(s, i, j) == [s EXCEPT ![i] = s[j], ![j] = s[i]]

\* shuffle: Fisher-Yates from the last index down to 1 (0-based); the draw
\* j = floor(Math.random() * (i + 1)) of step i is the next mixed-radix digit
\* of rnd, so that rnd enumerates the outcomes of the random source.
RECURSIVE shuffleFrom(_, _, _)
shuffleFrom(newDeck, i, rnd) ==
  IF i < 1 THEN newDeck
  ELSE LET j == rnd % (i + 1)
       IN  shuffleFrom(Swap(newDeck, i + 1, j + 1), i - 1, rnd \div (i + 1))

shuffle(d, rnd) == shuffleFrom(d, Len(d) - 1, rnd)

\* the outcomes of Math.random that are explored
RandomDraws == {k * 7654321 + k * k * 13 : k \in 1..NumShuffles}

Other(who) == IF who = "player" THEN "ai" ELSE "player"

Last(s) == s[Len(s)]

\* hand.filter(c => c.id !== card.id); the id is `${rank}-${suit}`
Without(hand, card) == SelectSeq(hand, LAMBDA c : c # card)

\* Array.prototype.find: the element at the first of the positions idx that
\* satisfy the callback, or undefined
Find(s, idx) ==
  IF idx = {} THEN NoCard
  ELSE s[CHOOSE i \in idx : \A k \in idx : i <= k]

----------------------------------------------------------------------------
(* State: the useState cells of App, lines 146-154; timer is the pending   *)
(* setTimeout of the AI effect together with the values its callback       *)
(* closed over (lines 280-307); confetti counts the calls of confetti()    *)
(* since the last initGame; last records the handler that ran last; moves  *)
(* counts the state-changing intents since the last initGame.              *)

VARIABLES deck, playerHand, aiHand, discardPile, currentSuit, turn,
          gameState, winner, showSuitPicker, timer, confetti, last, moves

gameVars == <<deck, playerHand, aiHand, discardPile, currentSuit, turn,
              gameState, winner, showSuitPicker>>
vars == <<deck, playerHand, aiHand, discardPile, currentSuit, turn,
          gameState, winner, showSuitPicker, timer, confetti, last, moves>>

\* the values one render of the component sees
Cur ==
  [deck |-> deck, playerHand |-> playerHand, aiHand |-> aiHand,
   discardPile |-> discardPile, currentSuit |-> currentSuit, turn |-> turn,
   gameState |-> gameState, winner |-> winner,
   showSuitPicker |-> showSuitPicker, confetti |-> confetti]

NoTimer ==
  [pending |-> FALSE, deck |-> <<>>, aiHand |-> <<>>, discardPile |-> <<>>,
   currentSuit |-> NoSuit]

Event(op, who, card, kind) == [op |-> op, who |-> who, card |-> card, kind |-> kind]

Init ==
  /\ deck = <<>>
  /\ playerHand = <<>>
  /\ aiHand = <<>>
  /\ discardPile = <<>>
  /\ currentSuit = NoSuit
  /\ turn = "player"
  /\ gameState = "start"
  /\ winner = NoOne
  /\ showSuitPicker = FALSE
  /\ timer = NoTimer
  /\ confetti = 0
  /\ last = Event("mount", NoOne, NoCard, "none")
  /\ moves = 0

----------------------------------------------------------------------------
(* Game actions.  Every operation takes c, the values the calling closure  *)
(* captured, and s, the state the setters act on: a setter called with a   *)
(* value writes what was computed from c, a setter called with an updater  *)
(* (prev => ...) computes from s.  For a click handler c and s coincide.   *)

HandOf(who) == IF who = "player" THEN "playerHand" ELSE "aiHand"

\* the legality test shared by playCard (negated, line 212), drawCard
\* (line 271), the AI (line 286) and the hand's isPlayable (lines 542-544)
Matches(c, card) ==
  \/ card.suit = c.currentSuit
  \/ card.rank = Last(c.discardPile).rank

\* checkWin, lines 191-205: the state after its setters
checkWin(s, hand, who) ==
  IF Len(hand) = 0
  THEN [s EXCEPT !.gameState = "gameOver",
                 !.winner = who,
                 !.confetti = IF who = "player" THEN @ + 1 ELSE @]
  ELSE s

\* rejected with the suit compared to the top card's suit, not the active suit
rejectedByTopSuit(c, card) ==
  /\ card.rank # WILD_RANK
  /\ (Len(c.discardPile) = 0 \/ card.suit # Last(c.discardPile).suit)
  /\ (Len(c.discardPile) = 0 \/ card.rank # Last(c.discardPile).rank)

\* the validation of playCard, lines 211-214: TRUE when the play is refused.
\* With an empty discard pile topCard is undefined and reading its rank
\* throws before any setter has run, which leaves the state as it was too.
rejected(c, card) ==
  /\ card.rank # WILD_RANK
  /\ card.suit # c.currentSuit
  /\ (Len(c.discardPile) = 0 \/ card.rank # Last(c.discardPile).rank)

\* afterPlay with line 239 (setCurrentSuit(card.suit)) missing
afterPlayKeepsSuit(s, card, who, newSuit) ==
  IF card.rank = WILD_RANK
  THEN IF newSuit # NoSuit
       THEN [s EXCEPT !.currentSuit = newSuit, !.turn = Other(who)]
       ELSE [s EXCEPT !.showSuitPicker = TRUE]
  ELSE [s EXCEPT !.turn = Other(who)]

\* the end of playCard, lines 229-242, for a card already discarded
afterPlay(s, card, who, newSuit) ==
  IF card.rank = WILD_RANK
  THEN IF newSuit # NoSuit
       THEN [s EXCEPT !.currentSuit = newSuit, !.turn = Other(who)]
       ELSE [s EXCEPT !.showSuitPicker = TRUE]
  ELSE [s EXCEPT !.currentSuit = card.suit, !.turn = Other(who)]

\* playCard going on to line 227 after checkWin returned true
playCardNoReturn(c, s, card, who, newSuit) ==
  LET newHand == Without(c[HandOf(who)], card)
      s1 == [s EXCEPT ![HandOf(who)] = newHand]
      s2 == [checkWin(s1, newHand, who) EXCEPT !.discardPile = Append(s.discardPile, card)]
  IN  IF rejected(c, card) THEN s
      ELSE afterPlay(s2, card, who, newSuit)

\* playCard, lines 207-243: checkWin returning true ends it at line 220 or
\* 224, before setDiscardPile of line 227
playCard(c, s, card, who, newSuit) ==
  LET newHand == Without(c[HandOf(who)], card)
      s1 == [s EXCEPT ![HandOf(who)] = newHand]
      s2 == [s1 EXCEPT !.discardPile = Append(s.discardPile, card)]
  IN  IF rejected(c, card) THEN s
      ELSE IF Len(newHand) = 0 THEN checkWin(s1, newHand, who)
      ELSE afterPlay(s2, card, who, newSuit)

\* the card a draw takes, line 252: deck[0], or none from an empty deck
drawn(c) == IF Len(c.deck) = 0 THEN NoCard ELSE c.deck[1]

\* drawCard with the return of line 249 missing: after the skip it goes on
\* to line 252, where deck[0] is undefined and is put into the hand
drawCardNoReturn(c, s, who) ==
  IF Len(c.deck) = 0
  THEN [s EXCEPT !.turn = Other(who),
                 ![HandOf(who)] = Append(s[HandOf(who)], NoCard)]
  ELSE LET newCard == c.deck[1]
           s1 == [s EXCEPT !.deck = Tail(c.deck),
                           ![HandOf(who)] = Append(s[HandOf(who)], newCard)]
       IN  IF ~(newCard.rank = WILD_RANK \/ Matches(c, newCard))
           THEN [s1 EXCEPT !.turn = Other(who)] ELSE s1

\* drawCard with the test of line 273 missing: every draw ends the turn
drawCardEndsTurn(c, s, who) ==
  IF Len(c.deck) = 0
  THEN [s EXCEPT !.turn = Other(who)]
  ELSE [s EXCEPT !.deck = Tail(c.deck),
                 ![HandOf(who)] = Append(s[HandOf(who)], c.deck[1]),
                 !.turn = Other(who)]

\* drawCard, lines 245-276
drawCard(c, s, who) ==
  IF Len(c.deck) = 0
  THEN [s EXCEPT !.turn = Other(who)]
  ELSE LET newCard == c.deck[1]
           remainingDeck == Tail(c.deck)
           s1 == [s EXCEPT !.deck = remainingDeck,
                           ![HandOf(who)] = Append(s[HandOf(who)], newCard)]
           canPlayNew == newCard.rank = WILD_RANK \/ Matches(c, newCard)
       IN  IF ~canPlayNew THEN [s1 EXCEPT !.turn = Other(who)] ELSE s1

----------------------------------------------------------------------------
(* The AI effect, lines 280-307                                            *)

\* the condition under which the effect sets a timer, line 281
AiGuard(s) == s.gameState = "playing" /\ s.turn = "ai" /\ s.winner = NoOne

\* the closure of the callback set during the render of s
Scheduled(s) ==
  [pending |-> TRUE, deck |-> s.deck, aiHand |-> s.aiHand,
   discardPile |-> s.discardPile, currentSuit |-> s.currentSuit]

\* DepsChanged with aiHand left out of the dependency array
DepsChangedNoAiHand(s, s2, fresh) ==
  \/ fresh
  \/ s2.turn # s.turn
  \/ s2.gameState # s.gameState
  \/ s2.discardPile # s.discardPile
  \/ s2.currentSuit # s.currentSuit
  \/ s2.winner # s.winner

\* DepsChanged with gameState left out of the dependency array
DepsChangedNoGameState(s, s2, fresh) ==
  \/ fresh
  \/ s2.turn # s.turn
  \/ s2.aiHand # s.aiHand
  \/ s2.discardPile # s.discardPile
  \/ s2.currentSuit # s.currentSuit
  \/ s2.winner # s.winner

\* the dependency array of line 307, compared between two renders: the
\* primitives by value; the arrays by identity, and every setAiHand and
\* setDiscardPile of the component stores a newly built array (fresh says
\* that both were stored, whatever their contents)
DepsChanged(s, s2, fresh) ==
  \/ fresh
  \/ s2.turn # s.turn
  \/ s2.gameState # s.gameState
  \/ s2.aiHand # s.aiHand
  \/ s2.discardPile # s.discardPile
  \/ s2.currentSuit # s.currentSuit
  \/ s2.winner # s.winner

\* the timer after the render of s2 that follows s: on a changed dependency
\* the cleanup clears the old timer and the effect runs again; otherwise a
\* timer that has not fired stays pending with its old closure
Effect(s, s2, fresh, fired) ==
  IF DepsChanged(s, s2, fresh)
  THEN IF AiGuard(s2) THEN Scheduled(s2) ELSE NoTimer
  ELSE IF fired THEN NoTimer ELSE timer

\* suitCounts of lines 295-296
suitCount(hand, suit) ==
  Cardinality({i \in 1..Len(hand) : hand[i].rank # WILD_RANK /\ hand[i].suit = suit})

\* reduceBest with >= in place of >: the earlier suit wins a tie
RECURSIVE reduceBestKeepsFirst(_, _, _)
reduceBestKeepsFirst(hand, a, k) ==
  IF k > Len(SUITS) THEN a
  ELSE LET b == SUITS[k]
       IN  reduceBestKeepsFirst(hand,
             IF suitCount(hand, a) >= suitCount(hand, b) THEN a ELSE b, k + 1)

\* Object.keys(suitCounts).reduce((a, b) => suitCounts[a] > suitCounts[b] ? a : b),
\* line 297: no initial value, so the fold starts from the first key
RECURSIVE reduceBest(_, _, _)
reduceBest(hand, a, k) ==
  IF k > Len(SUITS) THEN a
  ELSE LET b == SUITS[k]
       IN  reduceBest(hand, IF suitCount(hand, a) > suitCount(hand, b) THEN a ELSE b, k + 1)

bestSuit(hand) == reduceBest(hand, SUITS[1], 2)

\* playableNormal without the test that the card is not wild
playableAny(c) ==
  Find(c.aiHand, {i \in 1..Len(c.aiHand) :
                    c.aiHand[i].rank = WILD_RANK \/ Matches(c, c.aiHand[i])})

\* lines 286 and 292
playableNormal(c) ==
  Find(c.aiHand, {i \in 1..Len(c.aiHand) :
                    c.aiHand[i].rank # WILD_RANK /\ Matches(c, c.aiHand[i])})
wildCard(c) ==
  Find(c.aiHand, {i \in 1..Len(c.aiHand) : c.aiHand[i].rank = WILD_RANK})

\* the body of the setTimeout callback, lines 283-303
\* aiMove without the wild step: it draws whenever no normal card fits
aiMoveSkipsWild(c, s) ==
  IF playableNormal(c) # NoCard
  THEN playCard(c, s, playableNormal(c), "ai", NoSuit)
  ELSE drawCard(c, s, "ai")

aiMove(c, s) ==
  IF playableNormal(c) # NoCard
  THEN playCard(c, s, playableNormal(c), "ai", NoSuit)
  ELSE IF wildCard(c) # NoCard
  THEN playCard(c, s, wildCard(c), "ai", bestSuit(c.aiHand))
  ELSE drawCard(c, s, "ai")

aiMoveEvent(c) ==
  IF playableNormal(c) # NoCard THEN Event("aiMove", "ai", playableNormal(c), "play")
  ELSE IF wildCard(c) # NoCard THEN Event("aiMove", "ai", wildCard(c), "wild")
  ELSE Event("aiMove", "ai", drawn(c), "draw")

----------------------------------------------------------------------------
(* initGame, lines 160-189                                                 *)

\* findIndex with the test inverted: the first card that is a 7
firstSevenIndex(remainingDeck) ==
  LET idx == {i \in 1..Len(remainingDeck) : remainingDeck[i].rank = WILD_RANK}
  IN  IF idx = {} THEN 0 ELSE CHOOSE i \in idx : \A k \in idx : i <= k

\* remainingDeck.findIndex(c => c.rank !== WILD_RANK), 1-based, 0 for -1
firstNonSevenIndex(remainingDeck) ==
  LET idx == {i \in 1..Len(remainingDeck) : remainingDeck[i].rank # WILD_RANK}
  IN  IF idx = {} THEN 0 ELSE CHOOSE i \in idx : \A k \in idx : i <= k

\* initGame without setTurn('player'), line 185
initGameKeepsTurn(s, rnd) ==
  LET fullDeck == shuffle(createDeck, rnd)
      pHand == SubSeq(fullDeck, 1, HandSize)
      aHand == SubSeq(fullDeck, HandSize + 1, 2 * HandSize)
      initialDiscard == fullDeck[2 * HandSize + 1]
      remainingDeck == SubSeq(fullDeck, 2 * HandSize + 2, Len(fullDeck))
      n == firstNonSevenIndex(remainingDeck)
      swap == initialDiscard.rank = WILD_RANK /\ n # 0
      finalDiscard == IF swap THEN remainingDeck[n] ELSE initialDiscard
      finalDeck == IF swap THEN [remainingDeck EXCEPT ![n] = initialDiscard]
                   ELSE remainingDeck
  IN  [s EXCEPT !.playerHand = pHand,
                !.aiHand = aHand,
                !.discardPile = <<finalDiscard>>,
                !.deck = finalDeck,
                !.currentSuit = finalDiscard.suit,
                !.gameState = "playing",
                !.winner = NoOne,
                !.confetti = 0]

initGame(s, rnd) ==
  LET fullDeck == shuffle(createDeck, rnd)
      pHand == SubSeq(fullDeck, 1, HandSize)
      aHand == SubSeq(fullDeck, HandSize + 1, 2 * HandSize)
      initialDiscard == fullDeck[2 * HandSize + 1]
      remainingDeck == SubSeq(fullDeck, 2 * HandSize + 2, Len(fullDeck))
      n == firstNonSevenIndex(remainingDeck)
      swap == initialDiscard.rank = WILD_RANK /\ n # 0
      finalDiscard == IF swap THEN remainingDeck[n] ELSE initialDiscard
      finalDeck == IF swap THEN [remainingDeck EXCEPT ![n] = initialDiscard]
                   ELSE remainingDeck
  IN  [s EXCEPT !.playerHand = pHand,
                !.aiHand = aHand,
                !.discardPile = <<finalDiscard>>,
                !.deck = finalDeck,
                !.currentSuit = finalDiscard.suit,
                !.turn = "player",
                !.gameState = "playing",
                !.winner = NoOne,
                !.confetti = 0]

----------------------------------------------------------------------------
(* Actions: one per handler                                                *)

\* the render after a handler: the new state, the effect, the record of the handler
Render(s2, fresh, fired, ev) ==
  /\ deck' = s2.deck
  /\ playerHand' = s2.playerHand
  /\ aiHand' = s2.aiHand
  /\ discardPile' = s2.discardPile
  /\ currentSuit' = s2.currentSuit
  /\ turn' = s2.turn
  /\ gameState' = s2.gameState
  /\ winner' = s2.winner
  /\ showSuitPicker' = s2.showSuitPicker
  /\ confetti' = s2.confetti
  /\ timer' = Effect(Cur, s2, fresh, fired)
  /\ last' = ev
  /\ moves' = IF ev.op = "initGame" THEN 0
              ELSE IF ev.op \in {"restart", "playAgain"} \/ s2 = Cur THEN moves
              ELSE IF moves < MaxMoves THEN moves + 1
              ELSE moves

\* the start button, lines 386-392, rendered when gameState = 'start'
StartGame ==
  /\ gameState = "start"
  /\ \E rnd \in RandomDraws :
       Render(initGame(Cur, rnd), TRUE, FALSE, Event("initGame", NoOne, NoCard, "none"))

\* the Restart Game button of the header, lines 329-335
RestartGame ==
  /\ gameState \in {"start", "playing", "gameOver"}
  /\ Render([Cur EXCEPT !.gameState = "start"], FALSE, FALSE,
            Event("restart", NoOne, NoCard, "none"))

\* the Play Again button, lines 634-640, rendered when gameState = 'gameOver'
PlayAgain ==
  /\ gameState = "gameOver"
  /\ Render([Cur EXCEPT !.gameState = "start"], FALSE, FALSE,
            Event("playAgain", NoOne, NoCard, "none"))

\* isPlayable without the test of showSuitPicker
isPlayableWhilePicking(s, card) ==
  /\ s.turn = "player"
  /\ (card.rank = WILD_RANK \/ Matches(s, card))

\* isPlayable without the test of the turn
isPlayableAnyTurn(s, card) ==
  /\ ~s.showSuitPicker
  /\ (card.rank = WILD_RANK \/ Matches(s, card))

\* isPlayable of lines 541-545
isPlayable(s, card) ==
  /\ s.turn = "player"
  /\ ~s.showSuitPicker
  /\ (card.rank = WILD_RANK \/ Matches(s, card))

\* a card of the player's hand is clicked, lines 540-556
ClickCard ==
  /\ gameState # "start"
  /\ moves < MaxMoves
  /\ \E i \in 1..Len(playerHand) :
       LET card == playerHand[i]
       IN  IF isPlayable(Cur, card)
           THEN Render(playCard(Cur, Cur, card, "player", NoSuit), FALSE, FALSE,
                       Event("clickCard", "player", card, "play"))
           ELSE Render(Cur, FALSE, FALSE,
                       Event("clickCard", "player", card, "ignored"))

\* ClickDeck without the test of the turn
ClickDeckAnyTurn ==
  /\ gameState # "start"
  /\ moves < MaxMoves
  /\ IF ~showSuitPicker
     THEN Render(drawCard(Cur, Cur, "player"), FALSE, FALSE,
                 Event("clickDeck", "player", drawn(Cur), "draw"))
     ELSE Render(Cur, FALSE, FALSE,
                 Event("clickDeck", "player", NoCard, "ignored"))

\* the draw pile is clicked, lines 484-490
ClickDeck ==
  /\ gameState # "start"
  /\ moves < MaxMoves
  /\ IF turn = "player" /\ ~showSuitPicker
     THEN Render(drawCard(Cur, Cur, "player"), FALSE, FALSE,
                 Event("clickDeck", "player", drawn(Cur), "draw"))
     ELSE Render(Cur, FALSE, FALSE,
                 Event("clickDeck", "player", NoCard, "ignored"))

\* a suit button of the picker is clicked, lines 583-598
PickSuit ==
  /\ showSuitPicker
  /\ moves < MaxMoves
  /\ \E k \in 1..Len(SUITS) :
       Render([Cur EXCEPT !.currentSuit = SUITS[k],
                          !.showSuitPicker = FALSE,
                          !.turn = "ai"],
              FALSE, FALSE,
              Event("pickSuit", "player", [suit |-> SUITS[k], rank |-> "none"], "none"))

\* the timeout of the AI effect elapses, lines 282-304
AiTimer ==
  /\ timer.pending
  /\ moves < MaxMoves
  /\ Render(aiMove(timer, Cur), FALSE, TRUE, aiMoveEvent(timer))

Next ==
  \/ StartGame
  \/ RestartGame
  \/ PlayAgain
  \/ ClickCard
  \/ ClickDeck
  \/ PickSuit
  \/ AiTimer

Spec == Init /\ [][Next]_vars

\* the timeout of the AI effect elapses, lines 282-304; the callback runs
\* whenever it is pending, however many intents the match has seen
AiTimerFires ==
  /\ timer.pending
  /\ Render(aiMove(timer, Cur), FALSE, TRUE, aiMoveEvent(timer))

LiveNext ==
  \/ StartGame
  \/ RestartGame
  \/ PlayAgain
  \/ ClickCard
  \/ ClickDeck
  \/ PickSuit
  \/ AiTimerFires

\* setTimeout(..., 1500) of line 282: a callback that stays pending runs
LiveSpec == Init /\ [][LiveNext]_vars /\ WF_vars(AiTimerFires)

\* One match in which the player follows the rules of the table: it plays a
\* card whenever it holds one that isPlayable accepts, draws only otherwise,
\* and chooses a suit whenever the picker is open; nobody restarts.

\* the outcomes of Math.random explored for the match: those of RandomDraws
\* and two under which the players come to empty the deck
MatchDraws == RandomDraws \cup {136939143, 232340048}

\* the start button, lines 386-392, pressed once
DealOnce ==
  /\ gameState = "start"
  /\ last.op = "mount"
  /\ \E rnd \in MatchDraws :
       Render(initGame(Cur, rnd), TRUE, FALSE, Event("initGame", NoOne, NoCard, "none"))

\* the player clicks a card that isPlayable accepts, lines 540-556
PlayerPlays ==
  /\ gameState = "playing"
  /\ \E i \in 1..Len(playerHand) :
       /\ isPlayable(Cur, playerHand[i])
       /\ Render(playCard(Cur, Cur, playerHand[i], "player", NoSuit), FALSE, FALSE,
                 Event("clickCard", "player", playerHand[i], "play"))

\* the player clicks the draw pile, lines 484-490, holding no playable card
PlayerDraws ==
  /\ gameState = "playing"
  /\ turn = "player" /\ ~showSuitPicker
  /\ \A i \in 1..Len(playerHand) : ~isPlayable(Cur, playerHand[i])
  /\ Render(drawCard(Cur, Cur, "player"), FALSE, FALSE,
            Event("clickDeck", "player", drawn(Cur), "draw"))

\* the player clicks a suit button of the open picker, lines 583-598
PlayerPicks ==
  /\ gameState = "playing"
  /\ showSuitPicker
  /\ \E k \in 1..Len(SUITS) :
       Render([Cur EXCEPT !.currentSuit = SUITS[k],
                          !.showSuitPicker = FALSE,
                          !.turn = "ai"],
              FALSE, FALSE,
              Event("pickSuit", "player", [suit |-> SUITS[k], rank |-> "none"], "none"))

PlayerActs == PlayerPlays \/ PlayerDraws \/ PlayerPicks

MatchNext ==
  \/ DealOnce
  \/ PlayerPlays
  \/ PlayerDraws
  \/ PlayerPicks
  \/ AiTimerFires

\* the player always acts when it can, and a pending callback runs
MatchSpec ==
  /\ Init
  /\ [][MatchNext]_vars
  /\ WF_vars(PlayerActs)
  /\ WF_vars(AiTimerFires)

----------------------------------------------------------------------------
(* Properties                                                              *)

Cards(s) == {s[i] : i \in 1..Len(s)}
Players == {"player", "ai"}

\* the last handler played a card out of the hand of who
PlayedBy(ev, who) ==
  /\ ev.who = who
  /\ \/ ev.op = "clickCard" /\ ev.kind = "play"
     \/ ev.op = "aiMove" /\ ev.kind \in {"play", "wild"}

\* the last handler was a play-card or draw-card intent or an opponent move
IsIntent(ev) == ev.op \in {"clickCard", "clickDeck", "aiMove"}

\* C1: from the deal onward (gameState playing or gameOver) the deck, the two
\* hands and the discard pile are pairwise disjoint and together hold every
\* card of the full deck exactly once.
C1_Partition ==
  gameState \in {"playing", "gameOver"} =>
    LET all == deck \o playerHand \o aiHand \o discardPile
    IN  /\ Len(all) = Len(createDeck)
        /\ Cards(all) = Cards(createDeck)

\* C2: once the match is over (a hand is empty and gameState = gameOver) no
\* play-card intent, draw-card intent or opponent move changes the game state.
C2_TerminalFrozen ==
  [][(gameState = "gameOver" /\ IsIntent(last')) => UNCHANGED gameVars]_vars

\* C3: playCard with a card that is not wild, whose suit is not the active
\* suit and whose rank is not the rank of the top discard leaves the whole
\* state unchanged, whoever plays it and whatever suit is supplied.
C3_IllegalPlayNoChange ==
  Len(discardPile) > 0 =>
    \A card \in Cards(createDeck), who \in Players, newSuit \in Cards(SUITS) \cup {NoSuit} :
      (/\ card.rank # WILD_RANK
       /\ card.suit # currentSuit
       /\ card.rank # Last(discardPile).rank)
      => playCard(Cur, Cur, card, who, newSuit) = Cur

\* C3 witness: on the player's turn of a running match, with no suit choice
\* pending, a click on a card of the hand was refused as illegal.
C3_Witness ==
  /\ gameState = "playing" /\ turn = "player" /\ ~showSuitPicker
  /\ last.op = "clickCard" /\ last.kind = "ignored"
  /\ \E i \in 1..Len(playerHand) :
       /\ playerHand[i] = last.card
       /\ playerHand[i].rank # WILD_RANK
       /\ playerHand[i].suit # currentSuit
       /\ playerHand[i].rank # Last(discardPile).rank

\* C4: a wild card played without a supplied suit that does not empty the
\* hand sets the pending flag and leaves the turn owner and the active suit
\* as they were; and while the flag is set no play-card intent, draw-card
\* intent or opponent move changes the game state.
C4_WildBlocksUntilResolved ==
  [][/\ (/\ last'.op = "clickCard" /\ last'.kind = "play"
         /\ last'.card.rank = WILD_RANK
         /\ playerHand' # <<>>)
        => (showSuitPicker' /\ turn' = turn /\ currentSuit' = currentSuit)
     /\ (showSuitPicker /\ IsIntent(last')) => UNCHANGED gameVars]_vars

\* C4 witness: a wild play of the running match is pending (the wild is on
\* top of the pile, the player still holds cards) and a draw-card intent has
\* just been refused.
C4_Witness ==
  /\ gameState = "playing" /\ showSuitPicker /\ turn = "player"
  /\ Last(discardPile).rank = WILD_RANK
  /\ playerHand # <<>>
  /\ last.op = "clickDeck" /\ last.kind = "ignored"

\* C5: a play that leaves the actor's hand empty sets gameState = gameOver
\* and winner = the actor in that step, and changes neither the pending flag
\* nor the turn owner.
C5_EmptyHandWins ==
  [][\A who \in Players :
       (PlayedBy(last', who) /\ Cur[HandOf(who)] # <<>> /\ Cur'[HandOf(who)] = <<>>)
       => /\ gameState' = "gameOver"
          /\ winner' = who
          /\ showSuitPicker' = showSuitPicker
          /\ turn' = turn]_vars

\* C5 witness: the opponent has just emptied its hand with a wild card.
C5_Witness ==
  /\ last.op = "aiMove" /\ last.kind = "wild"
  /\ aiHand = <<>>
  /\ gameState = "gameOver" /\ winner = "ai"

\* C6: the opponent's move fires only when gameState = playing and turn = ai;
\* a timer is pending only in such a state, so a change of the turn owner or
\* of the phase (a restart, the end of the match) cancels it.
C6_AiMovesOnlyOnItsTurn ==
  [][/\ last'.op = "aiMove" => (gameState = "playing" /\ turn = "ai" /\ winner = NoOne)
     /\ timer'.pending => (gameState' = "playing" /\ turn' = "ai")]_vars

\* C6 witness: the match was restarted while the opponent's move was
\* scheduled, and no timer is pending any more.
C6_Witness ==
  /\ last.op = "restart"
  /\ gameState = "start" /\ turn = "ai" /\ winner = NoOne
  /\ ~showSuitPicker
  /\ ~timer.pending

\* C7: whatever the state initGame is called in, the state after it has the
\* pending flag cleared, no winner, the player to move and gameState = playing.
C7_DealIsFresh ==
  last.op = "initGame" =>
    /\ ~showSuitPicker
    /\ winner = NoOne
    /\ turn = "player"
    /\ gameState = "playing"

\* C8: confetti is called exactly once in a match the player wins and never
\* in another one, and a call happens only in the step in which the player's
\* hand becomes empty.
C8_CelebrationOnce ==
  [][/\ confetti' = (IF winner' = "player" THEN 1 ELSE 0)
     /\ confetti' > confetti => (playerHand # <<>> /\ playerHand' = <<>>)]_vars

\* C9: a legal play of a card that is not wild and does not empty the
\* actor's hand makes the card's suit the active suit and passes the turn to
\* the other side.
C9_NormalPlaySetsSuitPassesTurn ==
  [][\A who \in Players :
       (/\ PlayedBy(last', who)
        /\ last'.card.rank # WILD_RANK
        /\ Cur'[HandOf(who)] # <<>>)
       => /\ currentSuit' = last'.card.suit
          /\ turn' = Other(who)]_vars

\* C9 witness: in a running match a card has just been played on a card of
\* the same rank and another suit, and its suit is the active suit.
C9_Witness ==
  /\ gameState = "playing"
  /\ \E who \in Players : PlayedBy(last, who) /\ turn = Other(who)
  /\ Len(discardPile) >= 2
  /\ Last(discardPile) = last.card
  /\ last.card.rank # WILD_RANK
  /\ discardPile[Len(discardPile) - 1].rank = last.card.rank
  /\ discardPile[Len(discardPile) - 1].suit # last.card.suit
  /\ currentSuit = last.card.suit

\* C10: when the opponent moves holding a card that is not wild and matches
\* the active suit or the rank of the top discard, it plays the first such
\* card of its hand: that card leaves the hand, nothing is drawn.
C10_AiPlaysFirstMatch ==
  [][\A i \in 1..Len(aiHand) :
       (/\ last'.op = "aiMove"
        /\ aiHand[i].rank # WILD_RANK
        /\ (aiHand[i].suit = currentSuit \/ aiHand[i].rank = Last(discardPile).rank)
        /\ \A k \in 1..(i - 1) :
             \/ aiHand[k].rank = WILD_RANK
             \/ (aiHand[k].suit # currentSuit /\ aiHand[k].rank # Last(discardPile).rank))
       => /\ last'.kind = "play"
          /\ last'.card = aiHand[i]
          /\ aiHand' = SubSeq(aiHand, 1, i - 1) \o SubSeq(aiHand, i + 1, Len(aiHand))
          /\ deck' = deck]_vars

\* C10 witness: the opponent has just played a matching card that is not
\* wild while a wild card stood before it in its hand and is still there.
C10_Witness ==
  /\ gameState = "playing"
  /\ last.op = "aiMove" /\ last.kind = "play"
  /\ Last(discardPile) = last.card
  /\ aiHand # <<>>
  /\ aiHand[1].rank = WILD_RANK

\* C11: after every play by either actor the played card has left the
\* actor's hand and is the top of the discard pile, which has grown by that
\* one card, and the other hand and the deck are unchanged.
C11_PlayMovesCardToPile ==
  [][\A who \in Players :
       PlayedBy(last', who)
       => /\ last'.card \in Cards(Cur[HandOf(who)])
          /\ Cur'[HandOf(who)] = Without(Cur[HandOf(who)], last'.card)
          /\ discardPile' = Append(discardPile, last'.card)
          /\ Cur'[HandOf(Other(who))] = Cur[HandOf(Other(who))]
          /\ deck' = deck]_vars

\* a wild play of the running match waits for its suit: the picker is open
\* and the wild card is on top of the pile
PendingWild ==
  /\ gameState = "playing"
  /\ showSuitPicker
  /\ Last(discardPile).rank = WILD_RANK

\* C12: a suit choice made while a wild play of the running match is pending
\* sets the active suit to the chosen suit, clears the pending flag and gives
\* the turn to the side that did not play the wild (the opponent: only the
\* player's wild waits for a suit); a suit choice made in any other state
\* changes neither the active suit nor the turn owner.
C12_ResolveOnlyWhilePending ==
  [][last'.op = "pickSuit"
     => IF PendingWild
        THEN /\ currentSuit' = last'.card.suit
             /\ ~showSuitPicker'
             /\ turn = "player" /\ turn' = "ai"
        ELSE currentSuit' = currentSuit /\ turn' = turn]_vars

\* the last handler was a draw by who: the player's click on the draw pile
\* taken as a draw, or the opponent's move ending in drawCard
DrewBy(ev, who) ==
  /\ ev.who = who
  /\ ev.op \in {"clickDeck", "aiMove"}
  /\ ev.kind = "draw"

\* C13: a draw from a deck that is not empty moves the front card of the
\* deck to the end of the actor's hand and changes neither the other hand
\* nor the discard pile; the turn goes to the other side when the drawn card
\* is not playable (not wild, not of the active suit, not of the top rank)
\* and stays with the actor when it is.
C13_DrawTakesFrontCard ==
  [][\A who \in Players :
       (DrewBy(last', who) /\ deck # <<>>)
       => /\ deck' = Tail(deck)
          /\ Cur'[HandOf(who)] = Append(Cur[HandOf(who)], deck[1])
          /\ Cur'[HandOf(Other(who))] = Cur[HandOf(Other(who))]
          /\ discardPile' = discardPile
          /\ turn = who
          /\ turn' = IF \/ deck[1].rank = WILD_RANK
                        \/ deck[1].suit = currentSuit
                        \/ deck[1].rank = Last(discardPile).rank
                     THEN who ELSE Other(who)]_vars

\* C13 witness: in a running match the opponent has just drawn a card that
\* matches only by the rank of the top discard, and keeps the turn.
C13_Witness ==
  /\ gameState = "playing"
  /\ DrewBy(last, "ai")
  /\ last.card # NoCard
  /\ Last(aiHand) = last.card
  /\ last.card.rank # WILD_RANK
  /\ last.card.suit # currentSuit
  /\ last.card.rank = Last(discardPile).rank
  /\ turn = "ai"

\* C14: a draw from an empty deck draws nothing (the deck, both hands, the
\* discard pile and the active suit are unchanged) and passes the turn to the
\* other side.
C14_EmptyDeckSkipsTurn ==
  [][\A who \in Players :
       (DrewBy(last', who) /\ deck = <<>>)
       => /\ UNCHANGED <<deck, playerHand, aiHand, discardPile, currentSuit>>
          /\ turn = who
          /\ turn' = Other(who)]_vars

\* C14 witness: in a running match the opponent's draw found the deck empty
\* and the turn is the player's.
C14_Witness ==
  /\ gameState = "playing"
  /\ DrewBy(last, "ai")
  /\ last.card = NoCard
  /\ deck = <<>>
  /\ turn = "player"

\* the opponent's move has just played a wild card that was not its last
AiDeclared(ev) == ev.op = "aiMove" /\ ev.kind = "wild" /\ aiHand' # <<>>

\* suit number k has the greatest count among the opponent's cards that are
\* not wild
IsMaxSuit(k) ==
  \A j \in 1..Len(SUITS) : suitCount(aiHand, SUITS[j]) <= suitCount(aiHand, SUITS[k])

\* C15 as stated: the suit the opponent declares with a wild card has the
\* greatest count among its cards that are not wild, and among several such
\* suits it is the first in the order hearts, diamonds, clubs, spades.
C15_DeclaresFirstMaxSuit ==
  [][AiDeclared(last')
     => \E k \in 1..Len(SUITS) :
          /\ currentSuit' = SUITS[k]
          /\ IsMaxSuit(k)
          /\ \A j \in 1..(k - 1) :
               suitCount(aiHand, SUITS[j]) < suitCount(aiHand, SUITS[k])]_vars

\* C15 amended: the suit the opponent declares with a wild card has the
\* greatest count among its cards that are not wild, and among several such
\* suits (all four when every count is zero) it is the last in the order
\* hearts, diamonds, clubs, spades.
C15_DeclaresLastMaxSuit ==
  [][AiDeclared(last')
     => \E k \in 1..Len(SUITS) :
          /\ currentSuit' = SUITS[k]
          /\ IsMaxSuit(k)
          /\ \A j \in (k + 1)..Len(SUITS) :
               suitCount(aiHand, SUITS[j]) < suitCount(aiHand, SUITS[k])]_vars

\* C15 witness: the opponent has just played a wild card while two suits
\* shared the greatest count, one card each, and the later one is active.
C15_Witness ==
  /\ gameState = "playing"
  /\ last.op = "aiMove" /\ last.kind = "wild"
  /\ Last(discardPile) = last.card
  /\ \E j, k \in 1..Len(SUITS) :
       /\ j < k
       /\ suitCount(aiHand, SUITS[j]) = 1
       /\ suitCount(aiHand, SUITS[k]) = 1
       /\ IsMaxSuit(k)
       /\ currentSuit = SUITS[k]

\* the opponent holds a wild card
AiHoldsWild == \E i \in 1..Len(aiHand) : aiHand[i].rank = WILD_RANK

\* the opponent holds a card that is not wild and matches the active suit or
\* the rank of the top discard
AiHoldsMatch ==
  \E i \in 1..Len(aiHand) :
    /\ aiHand[i].rank # WILD_RANK
    /\ \/ aiHand[i].suit = currentSuit
       \/ aiHand[i].rank = Last(discardPile).rank

\* the cards that leave the opponent's hand in a step
AiPlayed == Cards(aiHand) \ Cards(aiHand')

\* C16: an opponent move that plays no card (it draws, or skips on an empty
\* deck) happens only when the opponent's hand holds no wild card and no card
\* matching the active suit or the top discard's rank; an opponent move that
\* plays a wild card happens only when the hand holds no such matching card.
C16_AiDrawsOnlyWithoutPlay ==
  [][last'.op = "aiMove"
     => /\ (AiPlayed = {} \/ last'.kind = "draw")
           => ~AiHoldsWild /\ ~AiHoldsMatch
        /\ ((\E x \in AiPlayed : x.rank = WILD_RANK) \/ last'.kind = "wild")
           => ~AiHoldsMatch]_vars

\* C16 witness: the opponent's move has just taken a card from the deck into
\* its hand, which now holds more than the dealt number of cards.
C16_Witness ==
  /\ gameState = "playing"
  /\ last.op = "aiMove" /\ last.kind = "draw"
  /\ last.card # NoCard
  /\ Len(aiHand) > HandSize
  /\ Last(aiHand) = last.card

\* C17: right after a deal each hand holds exactly the dealt number of cards
\* (HandSize, 8 in the source), the discard pile holds exactly one card, the
\* deck holds all the remaining cards of the full deck (35 of 52 in the
\* source), the active suit is the suit of the discard card, the turn owner
\* is the player and the phase is playing.
C17_DealShape ==
  last.op = "initGame"
  => /\ Len(playerHand) = HandSize
     /\ Len(aiHand) = HandSize
     /\ Len(discardPile) = 1
     /\ Len(deck) = Len(createDeck) - 2 * HandSize - 1
     /\ currentSuit = discardPile[1].suit
     /\ turn = "player"
     /\ gameState = "playing"

\* C17 witness: a deal has just happened and left cards in the deck.
C17_Witness ==
  /\ last.op = "initGame"
  /\ moves = 0
  /\ Len(discardPile) = 1
  /\ Len(deck) > 0
  /\ Cards(deck) \cup Cards(playerHand) \cup Cards(aiHand) \cup Cards(discardPile)
       = Cards(createDeck)

\* the shuffle order rnd gave the hands of the present state
DealtFrom(rnd) ==
  LET fullDeck == shuffle(createDeck, rnd)
  IN  /\ playerHand = SubSeq(fullDeck, 1, HandSize)
      /\ aiHand = SubSeq(fullDeck, HandSize + 1, 2 * HandSize)

\* the card the shuffle order rnd dealt as initial discard, and the deck
\* that remained behind it
DealtDiscard(rnd) == shuffle(createDeck, rnd)[2 * HandSize + 1]
DealtRest(rnd) ==
  SubSeq(shuffle(createDeck, rnd), 2 * HandSize + 2, Len(createDeck))

\* C18: right after a deal, for whichever shuffle order produced it, the
\* card on the discard pile is not a 7; a dealt initial discard that is not
\* a 7 stays and the deck is the remaining deck unchanged; a dealt initial
\* discard that is a 7 has been exchanged with the first card of the
\* remaining deck that is not a 7: that card is the discard, the 7 sits at
\* its position, and every other deck position is unchanged.
C18_DealNeverStartsOnWild ==
  last.op = "initGame"
  => /\ Len(discardPile) = 1
     /\ discardPile[1].rank # WILD_RANK
     /\ \E rnd \in RandomDraws :
          /\ DealtFrom(rnd)
          /\ IF DealtDiscard(rnd).rank # WILD_RANK
             THEN /\ discardPile[1] = DealtDiscard(rnd)
                  /\ deck = DealtRest(rnd)
             ELSE \E n \in 1..Len(deck) :
                    /\ DealtRest(rnd)[n].rank # WILD_RANK
                    /\ \A k \in 1..(n - 1) : DealtRest(rnd)[k].rank = WILD_RANK
                    /\ discardPile[1] = DealtRest(rnd)[n]
                    /\ deck[n] = DealtDiscard(rnd)
                    /\ Len(deck) = Len(DealtRest(rnd))
                    /\ \A k \in 1..Len(deck) :
                         k # n => deck[k] = DealtRest(rnd)[k]

\* C18 witness: a deal has just happened whose shuffle order dealt a 7 as
\* the initial discard, and that 7 is now in the deck.
C18_Witness ==
  /\ last.op = "initGame"
  /\ \E rnd \in RandomDraws :
       /\ DealtFrom(rnd)
       /\ DealtDiscard(rnd).rank = WILD_RANK
       /\ DealtDiscard(rnd) \in Cards(deck)
       /\ discardPile[1] \in Cards(DealtRest(rnd))

\* C19: in every reachable state, phase playing implies both hands are not
\* empty and there is no winner; phase game over implies the winner is the
\* player or the opponent, the winner's hand is empty and the other hand is
\* not; phase start implies there is no winner.
C19_PhaseWinnerHands ==
  /\ gameState = "playing"
     => playerHand # <<>> /\ aiHand # <<>> /\ winner = NoOne
  /\ gameState = "gameOver"
     => /\ winner \in Players
        /\ Cur[HandOf(winner)] = <<>>
        /\ Cur[HandOf(Other(winner))] # <<>>
  /\ gameState = "start" => winner = NoOne

\* C20: in every reachable state with phase playing and no wild resolution
\* pending, a top discard that is not a 7 has the active suit as its suit.
C20_ActiveSuitIsTopSuit ==
  (/\ gameState = "playing"
   /\ ~showSuitPicker
   /\ Last(discardPile).rank # WILD_RANK)
  => currentSuit = Last(discardPile).suit

\* the last handler was the player's click on a card or on the draw pile
PlayerIntent(ev) == ev.op \in {"clickCard", "clickDeck"}

\* C23: while the turn owner is the opponent, a click of the player on a card
\* of its hand or on the draw pile leaves the whole game state unchanged; and
\* while an opponent move is scheduled, a step that changes the deck, a hand,
\* the discard pile or the active suit is that opponent move.
C23_PlayerIntentsIdleOnAiTurn ==
  [][/\ (turn = "ai" /\ PlayerIntent(last'))
        => UNCHANGED <<gameVars, timer>>
     /\ (timer.pending
         /\ <<deck, playerHand, aiHand, discardPile, currentSuit>>'
              # <<deck, playerHand, aiHand, discardPile, currentSuit>>)
        => last'.op = "aiMove"]_vars

\* C23 witness: the player has just clicked a card it could have played on
\* its own turn while the opponent's move is scheduled, and the click was
\* ignored.
C23_Witness ==
  /\ gameState = "playing"
  /\ turn = "ai"
  /\ timer.pending
  /\ last.op = "clickCard" /\ last.kind = "ignored"
  /\ last.card \in Cards(playerHand)
  /\ (last.card.rank = WILD_RANK \/ Matches(Cur, last.card))

\* C24: whenever an opponent move is scheduled, and so whenever it fires, the
\* deck, the opponent's hand, the discard pile and the active suit its
\* callback captured are those of the present state.
C24_TimerSnapshotIsCurrent ==
  timer.pending
  => /\ timer.deck = deck
     /\ timer.aiHand = aiHand
     /\ timer.discardPile = discardPile
     /\ timer.currentSuit = currentSuit

\* C24 witness: the opponent's move has just drawn a card and kept the turn,
\* and the move scheduled next holds the deck without the drawn card.
C24_Witness ==
  /\ gameState = "playing"
  /\ turn = "ai"
  /\ last.op = "aiMove" /\ last.kind = "draw" /\ last.card # NoCard
  /\ timer.pending
  /\ timer.deck = deck
  /\ last.card \notin Cards(timer.deck)
  /\ last.card \in Cards(timer.aiHand)

\* the opponent holds a card it may play
AiHoldsPlay == AiHoldsWild \/ AiHoldsMatch

\* the opponent's turn is over: the turn is the player's, or the match is no
\* longer being played (it ended, or it was restarted)
AiTurnOver == turn = "player" \/ gameState # "playing"

\* C21: under weak fairness of the opponent's timer, whenever the phase is
\* playing and the turn owner is the opponent, eventually the turn is the
\* player's or the phase is game over (or the match was restarted); and at
\* most two opponent moves get there: an opponent move keeps the turn only
\* when it is a draw from a hand without a legal play that leaves the hand
\* with one, and an opponent move from a hand with a legal play ends the turn.
C21_AiTurnEnds ==
  /\ [][last'.op = "aiMove"
        => \/ AiTurnOver'
           \/ /\ ~AiHoldsPlay
              /\ AiPlayed = {}
              /\ Len(aiHand') = Len(aiHand) + 1
              /\ AiHoldsPlay']_vars
  /\ [][(last'.op = "aiMove" /\ AiHoldsPlay) => AiTurnOver']_vars
  /\ (gameState = "playing" /\ turn = "ai") ~> AiTurnOver

\* C21 witness: the opponent's move has just drawn a wild card and kept the
\* turn, and its second move is scheduled.
C21_Witness ==
  /\ gameState = "playing"
  /\ turn = "ai"
  /\ last.op = "aiMove" /\ last.kind = "draw"
  /\ last.card # NoCard
  /\ last.card.rank = WILD_RANK
  /\ Last(aiHand) = last.card
  /\ timer.pending

\* C22: when the player and the opponent both play a legal card whenever
\* they hold one and draw only otherwise, the player always acts on its turn
\* and resolves every pending wild, and the opponent's timer is fair, a match
\* that is being played eventually reaches game over.
C22_MatchTerminates ==
  (gameState = "playing") ~> (gameState = "gameOver")

====
